---- MODULE Spec2Model ----
(***************************************************************************)
(* Shape-level and value-level model of super-slomo/models/layers.py:      *)
(* the Keras layers UNet, Encoder, Decoder, BackWarp, OpticalFlow, Output. *)
(*                                                                         *)
(* A tensor is modelled by its NHWC shape [b, h, w, c].  Every call frame  *)
(* keeps the locals of the Python method it models and a program counter   *)
(* that is the source line about to run (0: no call of that method is     *)
(* active).  Layer objects live in the heap objs.                           *)
(***************************************************************************)
EXTENDS Integers, Sequences, FiniteSets, TLC

VARIABLES
    objs,      \* heap: layer id -> layer object (attributes set by __init__ / build)
    nserial,   \* number of objects constructed so far (identity of the next one)
    u,         \* frame of UNet.call
    s,         \* frame of Encoder.call / Decoder.call
    log,       \* sublayer invocations of the running UNet.call, in order
    drv,       \* the caller of the top-level layer: last input and last result
    err,       \* exception raised by a tensor primitive ("none": no exception)
    fl,        \* frame of OpticalFlow.call
    ou,        \* frame of Output.call
    bw         \* frame of BackWarp.call

vars == <<objs, nserial, u, s, log, drv, err, fl, ou, bw>>

----------------------------------------------------------------------------
(* Bounds of the model                                                      *)

MaxDim == 63
MaxOutFilters == 1
MaxFlowDim == 33
Scale == 4
MaxPixel == 1

(* Program constants                                                        *)

NumEncoders == 5
PoolSize == 2
UpSize == 2

MinDim == 2 ^ NumEncoders
Dims == MinDim .. MaxDim
OutFilters == 1 .. MaxOutFilters
Batches == {2}
InChannels == 6
FlowDims == MinDim .. MaxFlowDim
\* values k / Scale in [0, 1] of a time index or a visibility
UnitVals == 0 .. Scale
PixelVals == 0 .. MaxPixel

----------------------------------------------------------------------------
(* Tensors and the tensor primitives the layers call                         *)

T(b, h, w, c) == [b |-> b, h |-> h, w |-> w, c |-> c]
NoT == T(0, 0, 0, 0)

\* tf.keras.layers.LeakyReLU: elementwise, shape preserved
LeakyReLU(x) == x

\* tf.keras.layers.Conv2D(filters, kernel_size, strides=1, padding="same")
Conv2D(k, x) == [x EXCEPT !.c = k.filters]

\* Variant: pooling with padding "same" (rounds up).
PoolOut_Same(n) == (n + PoolSize - 1) \div PoolSize

\* tf.keras.layers.AveragePooling2D(): pool_size 2, strides = pool_size,
\* padding "valid": out = floor((in - pool) / stride) + 1
PoolOut(n) == ((n - PoolSize) \div PoolSize) + 1
PoolFits(x) == x.h >= PoolSize /\ x.w >= PoolSize
AveragePooling2D(x) == [x EXCEPT !.h = PoolOut(x.h), !.w = PoolOut(x.w)]

\* tf.keras.layers.UpSampling2D(interpolation="bilinear"): size 2
UpSampling2D(x) == [x EXCEPT !.h = x.h * UpSize, !.w = x.w * UpSize]

\* tf.pad(x, paddings): paddings[d] = <<before, after>> for each axis d
PadOk(paddings) == \A d \in 1..4 : paddings[d][1] >= 0 /\ paddings[d][2] >= 0
Pad(x, paddings) ==
    T(x.b + paddings[1][1] + paddings[1][2],
      x.h + paddings[2][1] + paddings[2][2],
      x.w + paddings[3][1] + paddings[3][2],
      x.c + paddings[4][1] + paddings[4][2])

\* Variant: the skip tensor is added to x instead of being concatenated.
Concatenate3_Add(x, y) == x

\* tf.keras.layers.Concatenate(axis=3)([x, y])
ConcatOk(x, y) == x.b = y.b /\ x.h = y.h /\ x.w = y.w
Concatenate3(x, y) == [x EXCEPT !.c = x.c + y.c]

\* Elementwise arithmetic of tensors of equal rank: NumPy broadcasting
Max(a, b) == IF a >= b THEN a ELSE b
Min(a, b) == IF a <= b THEN a ELSE b
DimOk(a, b) == a = b \/ a = 1 \/ b = 1
BroadcastOk(x, y) ==
    DimOk(x.b, y.b) /\ DimOk(x.h, y.h) /\ DimOk(x.w, y.w) /\ DimOk(x.c, y.c)
Broadcast(x, y) == T(Max(x.b, y.b), Max(x.h, y.h), Max(x.w, y.w), Max(x.c, y.c))
ElemOk(xs) == \A i, j \in DOMAIN xs : BroadcastOk(xs[i], xs[j])
RECURSIVE Elem(_)
Elem(xs) ==
    IF Len(xs) = 1 THEN xs[1] ELSE Broadcast(xs[1], Elem(Tail(xs)))

\* tf.concat(xs, axis=3)
ConcatAllOk(xs) == \A i \in DOMAIN xs : ConcatOk(xs[1], xs[i])
RECURSIVE ConcatAll(_)
ConcatAll(xs) ==
    IF Len(xs) = 1 THEN xs[1] ELSE Concatenate3(xs[1], ConcatAll(Tail(xs)))

\* x[:, :, :, lo:hi]
SliceC(x, lo, hi) == [x EXCEPT !.c = Max(0, Min(hi, x.c) - Min(lo, x.c))]

\* tfa.image.dense_image_warp(image, flow): flow is [b, h, w, 2] on the
\* image's grid, which must be at least 2 x 2; the result has the image's shape
WarpOk(image, flow) ==
    /\ flow.b = image.b /\ flow.h = image.h /\ flow.w = image.w /\ flow.c = 2
    /\ image.h >= 2 /\ image.w >= 2
DenseImageWarp(image, flow) == image

----------------------------------------------------------------------------
(* Layer objects                                                             *)

NoFn == [a \in {} |-> 0]

\* A layer object right after __init__: configuration set, nothing built.
NewLayer(ser, cls, cfg) ==
    [serial |-> ser, cls |-> cls, built |-> FALSE, cfg |-> cfg,
     refs |-> NoFn, conv |-> NoFn]

\* A Conv2D sublayer: its configuration and the input channel count its
\* kernel was created for (0: kernel not created yet).
NewConv(filters, kernel_size) ==
    [filters |-> filters, kernel_size |-> kernel_size, in_c |-> 0]

Child(p, a) == <<p[2], a>>

\* Conv2D.__call__: the kernel is created on the first call and afterwards
\* accepts only inputs with the channel count it was created for.
ConvOk(self, a, x) == objs[self].conv[a].in_c \in {0, x.c}
ConvCalled(self, a, x) == [objs EXCEPT ![self].conv[a].in_c = x.c]
ConvOut(self, a, x) == Conv2D(objs[self].conv[a], x)

----------------------------------------------------------------------------
(* Frames                                                                    *)

IdleU ==
    [self |-> <<"", "">>, pc |-> 0, caller |-> "", inputs |-> NoT,
     x_enc |-> NoT, skip |-> NoT, skip1 |-> NoT, skip2 |-> NoT,
     skip3 |-> NoT, skip4 |-> NoT, skip5 |-> NoT, x_dec |-> NoT]

IdleS ==
    [self |-> <<"", "">>, pc |-> 0, inputs |-> <<>>, x |-> NoT, skip |-> NoT,
     x_delta |-> 0, y_delta |-> 0, dst |-> ""]

\* Exact values at one sampled element of a tensor: n/d + e * 1e-12
\* (d = 0: the value is not modelled).  All n, d, e of the model stay far
\* below 10^6, so n1/d1 < n2/d2 implies n1/d1 + e1*1e-12 < n2/d2 + e2*1e-12
\* and the order of two values is the lexicographic order of (n/d, e).
Num(n, d) == [n |-> n, d |-> d, e |-> 0]
NoNum == Num(0, 0)
One == Num(1, 1)
NumAdd(x, y) == [n |-> x.n * y.d + y.n * x.d, d |-> x.d * y.d, e |-> x.e + y.e]
NumSub(x, y) == [n |-> x.n * y.d - y.n * x.d, d |-> x.d * y.d, e |-> x.e - y.e]
\* product of two values that carry no 1e-12 term
NumMul(x, y) == [n |-> x.n * y.n, d |-> x.d * y.d, e |-> 0]
NumLess(x, y) ==
    \/ x.n * y.d < y.n * x.d
    \/ x.n * y.d = y.n * x.d /\ x.e < y.e
NumEq(x, y) == x.n * y.d = y.n * x.d /\ x.e = y.e
NumLeq(x, y) == NumLess(x, y) \/ NumEq(x, y)
NumIsZero(x) == x.n = 0 /\ x.e = 0
\* the Python float literal 1e-12
Eps == [n |-> 0, d |-> 1, e |-> 1]

\* tf.divide(x, y): the quotient is kept as the pair; a zero divisor gives
\* nan or inf.
Divide(x, y) == [num |-> x, den |-> y]
IsFinite(q) == ~NumIsZero(q.den)

IdleF ==
    [self |-> <<"", "">>, pc |-> 0,
     frames_0 |-> NoT, frames_1 |-> NoT, f_01 |-> NoT, f_10 |-> NoT,
     t_indeces |-> NoT, t0_value |-> NoT, t1_value |-> NoT,
     f_t0_t |-> NoT, f_t1_t |-> NoT, g_i0_ft0 |-> NoT, g_i1_ft1 |-> NoT,
     flow_interp_in |-> NoT, flow_interp_out |-> NoT,
     delta_f_t0 |-> NoT, delta_f_t1 |-> NoT, v_t0 |-> NoT, v_t1 |-> NoT,
     f_t0 |-> NoT, f_t1 |-> NoT,
     val |-> [v_t0 |-> NoNum, v_t1 |-> NoNum]]

IdleO ==
    [self |-> <<"", "">>, pc |-> 0,
     frames_0 |-> NoT, f_t0 |-> NoT, v_t0 |-> NoT, frames_1 |-> NoT,
     f_t1 |-> NoT, v_t1 |-> NoT, t_indeces |-> NoT,
     g_i0_ft0 |-> NoT, g_i1_ft1 |-> NoT, z |-> NoT, frame_pred |-> NoT,
     val |-> [t_indeces |-> NoNum, v_t0 |-> NoNum, v_t1 |-> NoNum,
              g_i0_ft0 |-> NoNum, g_i1_ft1 |-> NoNum, z |-> NoNum,
              frame_pred |-> NoNum]]

IdleBW ==
    [self |-> <<"", "">>, pc |-> 0, caller |-> "", dst |-> "",
     inputs |-> <<>>, image |-> NoT, flow |-> NoT, img_backwarp |-> NoT,
     val |-> NoNum]

NoInput == [kind |-> "none"]
IdleDrv ==
    [stage |-> "idle", input |-> NoInput, flow_out |-> NoInput,
     result |-> NoInput, repeat |-> FALSE, prev |-> NoInput]

\* An exception unwinds every frame.
Raise(kind) ==
    /\ err' = kind
    /\ u' = IdleU
    /\ s' = IdleS
    /\ fl' = IdleF
    /\ ou' = IdleO
    /\ bw' = IdleBW
    /\ UNCHANGED <<objs, nserial, log, drv>>

----------------------------------------------------------------------------
(* Keras Layer.__call__: build on the first call, then call                  *)

\* First line of call and line of build, per class.
CallLine(cls) ==
    CASE cls = "UNet" -> 33
      [] cls = "Encoder" -> 80
      [] cls = "Decoder" -> 109
      [] cls = "BackWarp" -> 141
      [] cls = "OpticalFlow" -> 156
      [] cls = "Output" -> 197

BuildLine(cls) ==
    CASE cls = "UNet" -> 10
      [] cls = "Encoder" -> 63
      [] cls = "Decoder" -> 98
      [] cls = "BackWarp" -> 137
      [] cls = "OpticalFlow" -> 150
      [] cls = "Output" -> 192

EntryLine(id) ==
    IF objs[id].built THEN CallLine(objs[id].cls) ELSE BuildLine(objs[id].cls)

----------------------------------------------------------------------------
(* UNet                                                                      *)

\* UNet.build, lines 10-30
UNetBuild ==
    /\ u.pc = 10
    /\ LET self == u.self
           n == nserial
           enc(i, f, k) == NewLayer(n + 3 + i, "Encoder",
                                    [filters |-> f, kernel_size |-> k])
           dec(i, f) == NewLayer(n + 8 + i, "Decoder", [filters |-> f])
       IN  /\ objs' =
                 (Child(self, "encoder1") :> enc(1, 64, 5)) @@
                 (Child(self, "encoder2") :> enc(2, 128, 5)) @@
                 (Child(self, "encoder3") :> enc(3, 256, 3)) @@
                 (Child(self, "encoder4") :> enc(4, 512, 3)) @@
                 (Child(self, "encoder5") :> enc(5, 512, 3)) @@
                 (Child(self, "decoder1") :> dec(1, 512)) @@
                 (Child(self, "decoder2") :> dec(2, 256)) @@
                 (Child(self, "decoder3") :> dec(3, 128)) @@
                 (Child(self, "decoder4") :> dec(4, 64)) @@
                 (Child(self, "decoder5") :> dec(5, 32)) @@
                 [objs EXCEPT
                    ![self].built = TRUE,
                    ![self].refs =
                        [leaky_relu |-> n + 1, conv1 |-> n + 2, conv2 |-> n + 3,
                         encoder1 |-> n + 4, encoder2 |-> n + 5,
                         encoder3 |-> n + 6, encoder4 |-> n + 7,
                         encoder5 |-> n + 8, decoder1 |-> n + 9,
                         decoder2 |-> n + 10, decoder3 |-> n + 11,
                         decoder4 |-> n + 12, decoder5 |-> n + 13,
                         conv3 |-> n + 14],
                    ![self].conv =
                        [conv1 |-> NewConv(32, 7), conv2 |-> NewConv(32, 7),
                         conv3 |-> NewConv(objs[self].cfg.out_filters, 3)]]
           /\ nserial' = n + 14
    /\ u' = [u EXCEPT !.pc = 33]
    /\ UNCHANGED <<s, log, drv, err, fl, ou, bw>>

\* A line of UNet.call of the form  dst = self.<conv>(src)
UNetConv(line, a, src, dst) ==
    /\ u.pc = line
    /\ IF ConvOk(u.self, a, u[src])
       THEN /\ objs' = ConvCalled(u.self, a, u[src])
            /\ u' = [u EXCEPT ![dst] = ConvOut(u.self, a, u[src]), !.pc = line + 1]
            /\ UNCHANGED <<nserial, s, log, drv, err, fl, ou, bw>>
       ELSE Raise("conv_channels")

\* A line of UNet.call of the form  dst = self.leaky_relu(src)
UNetLeakyReLU(line, src, dst) ==
    /\ u.pc = line
    /\ u' = [u EXCEPT ![dst] = LeakyReLU(u[src]), !.pc = line + 1]
    /\ UNCHANGED <<objs, nserial, s, log, drv, err, fl, ou, bw>>

\* A line of UNet.call of the form  dst = self.<sublayer>(args):
\* Layer.__call__ of the sublayer is entered with the values of the locals args.
UNetSub(line, a, args, dst) ==
    /\ u.pc = line
    /\ s.pc = 0
    /\ LET id == Child(u.self, a)
       IN  s' = [IdleS EXCEPT !.self = id, !.pc = EntryLine(id),
                              !.inputs = [i \in DOMAIN args |-> u[args[i]]],
                              !.dst = dst]
    /\ log' = Append(log, [line |-> line, layer |-> a, args |-> args, dst |-> dst])
    /\ UNCHANGED <<objs, nserial, u, drv, err, fl, ou, bw>>

U33 == UNetConv(33, "conv1", "inputs", "x_enc")
U34 == UNetLeakyReLU(34, "x_enc", "x_enc")
U35 == UNetConv(35, "conv2", "x_enc", "skip")
U36 == UNetLeakyReLU(36, "skip", "skip1")
U37 == UNetSub(37, "encoder1", <<"skip1">>, "skip2")
U38 == UNetSub(38, "encoder2", <<"skip2">>, "skip3")
U39 == UNetSub(39, "encoder3", <<"skip3">>, "skip4")
U40 == UNetSub(40, "encoder4", <<"skip4">>, "skip5")
U41 == UNetSub(41, "encoder5", <<"skip5">>, "x_enc")
\* Variant: decoder1 is given skip4 instead of skip5.
U42_WrongSkip == UNetSub(42, "decoder1", <<"x_enc", "skip4">>, "x_dec")
U42 == UNetSub(42, "decoder1", <<"x_enc", "skip5">>, "x_dec")
U43 == UNetSub(43, "decoder2", <<"x_dec", "skip4">>, "x_dec")
U44 == UNetSub(44, "decoder3", <<"x_dec", "skip3">>, "x_dec")
U45 == UNetSub(45, "decoder4", <<"x_dec", "skip2">>, "x_dec")
U46 == UNetSub(46, "decoder5", <<"x_dec", "skip1">>, "x_dec")
U47 == UNetConv(47, "conv3", "x_dec", "x_dec")
U48 == UNetLeakyReLU(48, "x_dec", "x_dec")

\* A sublayer of UNet returns value: the calling line's assignment completes.
SubReturn(value) ==
    /\ u' = [u EXCEPT ![s.dst] = value, !.pc = u.pc + 1]
    /\ s' = IdleS
    /\ UNCHANGED <<objs, nserial, log, drv, err, fl, ou, bw>>

----------------------------------------------------------------------------
(* Encoder                                                                   *)

\* Encoder.build, lines 63-77
EncoderBuild ==
    /\ s.pc = 63
    /\ LET cfg == objs[s.self].cfg
       IN  objs' = [objs EXCEPT
                      ![s.self].built = TRUE,
                      ![s.self].refs =
                          [conv1 |-> nserial + 1, conv2 |-> nserial + 2,
                           avg_pool |-> nserial + 3, leaky_relu |-> nserial + 4],
                      ![s.self].conv =
                          [conv1 |-> NewConv(cfg.filters, cfg.kernel_size),
                           conv2 |-> NewConv(cfg.filters, cfg.kernel_size)]]
    /\ nserial' = nserial + 4
    /\ s' = [s EXCEPT !.pc = 80]
    /\ UNCHANGED <<u, log, drv, err, fl, ou, bw>>

\* line 80: x = self.avg_pool(inputs)
E80 ==
    /\ s.pc = 80
    /\ IF PoolFits(s.inputs[1])
       THEN /\ s' = [s EXCEPT !.x = AveragePooling2D(s.inputs[1]), !.pc = 81]
            /\ UNCHANGED <<objs, nserial, u, log, drv, err, fl, ou, bw>>
       ELSE Raise("pool_window")

\* A line of Encoder.call / Decoder.call of the form  x = self.<conv>(x)
SubConv(line, next, a) ==
    /\ s.pc = line
    /\ IF ConvOk(s.self, a, s.x)
       THEN /\ objs' = ConvCalled(s.self, a, s.x)
            /\ s' = [s EXCEPT !.x = ConvOut(s.self, a, s.x), !.pc = next]
            /\ UNCHANGED <<nserial, u, log, drv, err, fl, ou, bw>>
       ELSE Raise("conv_channels")

\* A line of Encoder.call / Decoder.call of the form  x = self.leaky_relu(x)
SubLeakyReLU(line, next) ==
    /\ s.pc = line
    /\ s' = [s EXCEPT !.x = LeakyReLU(s.x), !.pc = next]
    /\ UNCHANGED <<objs, nserial, u, log, drv, err, fl, ou, bw>>

E81 == SubConv(81, 82, "conv1")
E82 == SubLeakyReLU(82, 83)
E83 == SubConv(83, 84, "conv2")
E84 == SubLeakyReLU(84, 85)

\* line 85: return x
E85 ==
    /\ s.pc = 85
    /\ SubReturn(s.x)

----------------------------------------------------------------------------
(* Decoder                                                                   *)

\* Decoder.build, lines 98-106
DecoderBuild ==
    /\ s.pc = 98
    /\ LET cfg == objs[s.self].cfg
       IN  objs' = [objs EXCEPT
                      ![s.self].built = TRUE,
                      ![s.self].refs =
                          [conv1 |-> nserial + 1, conv2 |-> nserial + 2,
                           interpolation |-> nserial + 3,
                           leaky_relu |-> nserial + 4],
                      ![s.self].conv =
                          [conv1 |-> NewConv(cfg.filters, 3),
                           conv2 |-> NewConv(cfg.filters, 3)]]
    /\ nserial' = nserial + 4
    /\ s' = [s EXCEPT !.pc = 109]
    /\ UNCHANGED <<u, log, drv, err, fl, ou, bw>>

\* line 109: x, skip = inputs
D109 ==
    /\ s.pc = 109
    /\ s' = [s EXCEPT !.x = s.inputs[1], !.skip = s.inputs[2], !.pc = 110]
    /\ UNCHANGED <<objs, nserial, u, log, drv, err, fl, ou, bw>>

\* line 110: x = self.interpolation(x)
D110 ==
    /\ s.pc = 110
    /\ s' = [s EXCEPT !.x = UpSampling2D(s.x), !.pc = 111]
    /\ UNCHANGED <<objs, nserial, u, log, drv, err, fl, ou, bw>>

D111 == SubConv(111, 112, "conv1")
D112 == SubLeakyReLU(112, 115)

\* Variant: the difference taken the other way round.
D115_Reversed ==
    /\ s.pc = 115
    /\ s' = [s EXCEPT !.x_delta = s.x.h - s.skip.h, !.pc = 116]
    /\ UNCHANGED <<objs, nserial, u, log, drv, err, fl, ou, bw>>

\* line 115: x_delta = skip.shape[1] - x.shape[1]
D115 ==
    /\ s.pc = 115
    /\ s' = [s EXCEPT !.x_delta = s.skip.h - s.x.h, !.pc = 116]
    /\ UNCHANGED <<objs, nserial, u, log, drv, err, fl, ou, bw>>

\* line 116: y_delta = skip.shape[2] - x.shape[2]
D116 ==
    /\ s.pc = 116
    /\ s' = [s EXCEPT !.y_delta = s.skip.w - s.x.w, !.pc = 117]
    /\ UNCHANGED <<objs, nserial, u, log, drv, err, fl, ou, bw>>

\* Variant: nothing is padded.
Paddings_None(x_delta, y_delta) == <<<<0, 0>>, <<0, 0>>, <<0, 0>>, <<0, 0>>>>

\* lines 117-119: the paddings argument of tf.pad
Paddings(x_delta, y_delta) == <<<<0, 0>>, <<0, x_delta>>, <<0, y_delta>>, <<0, 0>>>>

\* lines 117-119: x = tf.pad(x, [[0, 0], [0, x_delta], [0, y_delta], [0, 0]])
D117 ==
    /\ s.pc = 117
    /\ IF PadOk(Paddings(s.x_delta, s.y_delta))
       THEN /\ s' = [s EXCEPT !.x = Pad(s.x, Paddings(s.x_delta, s.y_delta)),
                              !.pc = 121]
            /\ UNCHANGED <<objs, nserial, u, log, drv, err, fl, ou, bw>>
       ELSE Raise("pad_negative")

\* Variant: the Concatenate layer of line 121 is kept in an attribute of self.
D121_KeepsLayer ==
    /\ s.pc = 121
    /\ ConcatOk(s.x, s.skip)
    /\ s' = [s EXCEPT !.x = Concatenate3(s.x, s.skip), !.pc = 122]
    /\ objs' = [objs EXCEPT
                  ![s.self].refs = ("concat" :> (nserial + 1)) @@ objs[s.self].refs]
    /\ nserial' = nserial + 1
    /\ UNCHANGED <<u, log, drv, err, fl, ou, bw>>

\* line 121: x = tf.keras.layers.Concatenate(axis=3)([x, skip])
\* The Concatenate layer is a temporary: no attribute of self refers to it.
D121 ==
    /\ s.pc = 121
    /\ IF ConcatOk(s.x, s.skip)
       THEN /\ s' = [s EXCEPT !.x = Concatenate3(s.x, s.skip), !.pc = 122]
            /\ UNCHANGED <<objs, nserial, u, log, drv, err, fl, ou, bw>>
       ELSE Raise("concat_shape")

D122 == SubConv(122, 123, "conv2")
D123 == SubLeakyReLU(123, 124)

\* line 124: return x
D124 ==
    /\ s.pc = 124
    /\ SubReturn(s.x)

----------------------------------------------------------------------------
(* Values that the inputs and the weights determine but the model leaves     *)
(* open: they are drawn when first computed and are the same whenever the    *)
(* same inputs are computed on again.                                        *)

Unset == 0 - 1
NoSample == [v |-> Unset, g_i0_ft0 |-> Unset, g_i1_ft1 |-> Unset]
Sample(k, range) ==
    IF drv.input.sample[k] = Unset THEN range ELSE {drv.input.sample[k]}
Sampled(k, x) == [drv EXCEPT !.input.sample[k] = x]

----------------------------------------------------------------------------
(* BackWarp                                                                  *)

\* BackWarp.build, lines 137-138
BackWarpBuild ==
    /\ bw.pc = 137
    /\ objs' = [objs EXCEPT ![bw.self].built = TRUE,
                            ![bw.self].refs = [backwarp |-> nserial + 1]]
    /\ nserial' = nserial + 1
    /\ bw' = [bw EXCEPT !.pc = 141]
    /\ UNCHANGED <<u, s, log, drv, err, fl, ou>>

\* line 141: image, flow = inputs
B141 ==
    /\ bw.pc = 141
    /\ bw' = [bw EXCEPT !.image = bw.inputs[1], !.flow = bw.inputs[2], !.pc = 142]
    /\ UNCHANGED <<objs, nserial, u, s, log, drv, err, fl, ou>>

\* line 142: img_backwarp = self.backwarp(image, flow)
\* The warped pixel is a value of the image; Output.call reads it.
B142 ==
    /\ bw.pc = 142
    /\ IF WarpOk(bw.image, bw.flow)
       THEN /\ IF bw.caller = "Output"
               THEN \E g \in Sample(bw.dst, PixelVals) :
                       /\ bw' = [bw EXCEPT
                                   !.img_backwarp = DenseImageWarp(bw.image, bw.flow),
                                   !.val = Num(g, 1), !.pc = 143]
                       /\ drv' = Sampled(bw.dst, g)
               ELSE /\ bw' = [bw EXCEPT
                                !.img_backwarp = DenseImageWarp(bw.image, bw.flow),
                                !.pc = 143]
                    /\ UNCHANGED drv
            /\ UNCHANGED <<objs, nserial, u, s, log, err, fl, ou>>
       ELSE Raise("warp_shape")

\* line 143: return img_backwarp
B143 ==
    /\ bw.pc = 143
    /\ bw' = IdleBW
    /\ IF bw.caller = "Output"
       THEN /\ ou' = [ou EXCEPT ![bw.dst] = bw.img_backwarp,
                                !.val[bw.dst] = bw.val,
                                !.pc = IF ou.pc = 200 THEN 201 ELSE 203]
            /\ UNCHANGED fl
       ELSE /\ fl' = [fl EXCEPT ![bw.dst] = bw.img_backwarp,
                                !.pc = IF fl.pc = 166 THEN 167 ELSE 169]
            /\ UNCHANGED ou
    /\ UNCHANGED <<objs, nserial, u, s, log, drv, err>>

\* Layer.__call__ of a BackWarp sublayer
EnterBackWarp(caller, self, a, args, dst) ==
    LET id == Child(self, a)
    IN  bw' = [IdleBW EXCEPT !.self = id, !.pc = EntryLine(id),
                             !.caller = caller, !.dst = dst, !.inputs = args]

----------------------------------------------------------------------------
(* OpticalFlow                                                               *)

\* OpticalFlow.build, lines 150-153
OpticalFlowBuild ==
    /\ fl.pc = 150
    /\ objs' =
          (Child(fl.self, "flow_interp_layer") :>
               NewLayer(nserial + 1, "UNet", [out_filters |-> 5])) @@
          (Child(fl.self, "backwarp_layer_t0") :>
               NewLayer(nserial + 2, "BackWarp", NoFn)) @@
          (Child(fl.self, "backwarp_layer_t1") :>
               NewLayer(nserial + 3, "BackWarp", NoFn)) @@
          [objs EXCEPT
             ![fl.self].built = TRUE,
             ![fl.self].refs =
                 [flow_interp_layer |-> nserial + 1,
                  backwarp_layer_t0 |-> nserial + 2,
                  backwarp_layer_t1 |-> nserial + 3]]
    /\ nserial' = nserial + 3
    /\ fl' = [fl EXCEPT !.pc = 156]
    /\ UNCHANGED <<u, s, log, drv, err, ou, bw>>

\* line 156: frames_0, frames_1, f_01, f_10, t_indeces = inputs
F156 ==
    /\ fl.pc = 156
    /\ fl' = [fl EXCEPT !.frames_0 = drv.input.frames_0,
                        !.frames_1 = drv.input.frames_1,
                        !.f_01 = drv.input.f_01,
                        !.f_10 = drv.input.f_10,
                        !.t_indeces = drv.input.t_indeces,
                        !.pc = 158]
    /\ UNCHANGED <<objs, nserial, u, s, log, drv, err, ou, bw>>

\* A line of OpticalFlow.call that combines the locals xs elementwise
\* (Python numbers broadcast to any shape)
FlowElem(line, next, dst, xs) ==
    /\ fl.pc = line
    /\ LET ts == [i \in DOMAIN xs |-> fl[xs[i]]]
       IN  IF ElemOk(ts)
           THEN /\ fl' = [fl EXCEPT ![dst] = Elem(ts), !.pc = next]
                /\ UNCHANGED <<objs, nserial, u, s, log, drv, err, ou, bw>>
           ELSE Raise("broadcast")

\* line 158: t0_value = (-1 * (1 - t_indeces)) * t_indeces
F158 == FlowElem(158, 159, "t0_value", <<"t_indeces", "t_indeces">>)
\* line 159: t1_value = t_indeces * t_indeces
F159 == FlowElem(159, 160, "t1_value", <<"t_indeces", "t_indeces">>)
\* line 160: f_t0_t = (t0_value * f_01) + (t1_value * f_10)
F160 == FlowElem(160, 162, "f_t0_t", <<"t0_value", "f_01", "t1_value", "f_10">>)
\* line 162: t1_value = (1 - t_indeces) * (1 - t_indeces)
F162 == FlowElem(162, 163, "t1_value", <<"t_indeces", "t_indeces">>)
\* line 163: f_t1_t = (t1_value * f_01) - (t0_value * f_10)
F163 == FlowElem(163, 166, "f_t1_t", <<"t1_value", "f_01", "t0_value", "f_10">>)

\* line 166: g_i0_ft0 = self.backwarp_layer_t0([frames_0, f_t0_t])
F166 ==
    /\ fl.pc = 166
    /\ bw.pc = 0
    /\ EnterBackWarp("OpticalFlow", fl.self, "backwarp_layer_t0",
                     <<fl.frames_0, fl.f_t0_t>>, "g_i0_ft0")
    /\ UNCHANGED <<objs, nserial, u, s, log, drv, err, fl, ou>>

\* line 167: g_i1_ft1 = self.backwarp_layer_t1([frames_1, f_t1_t])
F167 ==
    /\ fl.pc = 167
    /\ bw.pc = 0
    /\ EnterBackWarp("OpticalFlow", fl.self, "backwarp_layer_t1",
                     <<fl.frames_1, fl.f_t1_t>>, "g_i1_ft1")
    /\ UNCHANGED <<objs, nserial, u, s, log, drv, err, fl, ou>>

\* lines 169-171: flow_interp_in = tf.concat([...], axis=3)
F169 ==
    /\ fl.pc = 169
    /\ LET ts == <<fl.frames_0, fl.frames_1, fl.f_01, fl.f_10, fl.f_t1_t,
                   fl.f_t0_t, fl.g_i1_ft1, fl.g_i0_ft0>>
       IN  IF ConcatAllOk(ts)
           THEN /\ fl' = [fl EXCEPT !.flow_interp_in = ConcatAll(ts), !.pc = 172]
                /\ UNCHANGED <<objs, nserial, u, s, log, drv, err, ou, bw>>
           ELSE Raise("concat_shape")

\* line 172: flow_interp_out = self.flow_interp_layer(flow_interp_in)
F172 ==
    /\ fl.pc = 172
    /\ u.pc = 0
    /\ LET id == Child(fl.self, "flow_interp_layer")
       IN  u' = [IdleU EXCEPT !.self = id, !.pc = EntryLine(id),
                              !.caller = "OpticalFlow",
                              !.inputs = fl.flow_interp_in]
    /\ log' = <<>>
    /\ UNCHANGED <<objs, nserial, s, drv, err, fl, ou, bw>>

\* A line of OpticalFlow.call of the form  dst = src[:, :, :, lo:hi]
FlowSlice(line, next, dst, src, lo, hi) ==
    /\ fl.pc = line
    /\ fl' = [fl EXCEPT ![dst] = SliceC(fl[src], lo, hi), !.pc = next]
    /\ UNCHANGED <<objs, nserial, u, s, log, drv, err, ou, bw>>

\* line 175: delta_f_t0 = flow_interp_out[:, :, :, :2]
F175 == FlowSlice(175, 176, "delta_f_t0", "flow_interp_out", 0, 2)
\* line 176: delta_f_t1 = flow_interp_out[:, :, :, 2:4]
F176 == FlowSlice(176, 179, "delta_f_t1", "flow_interp_out", 2, 4)

\* line 179: v_t0 = tf.keras.activations.sigmoid(flow_interp_out[:, :, :, 4:5])
\* The sigmoid of a float lies in [0, 1]; which value is up to the weights.
F179 ==
    /\ fl.pc = 179
    /\ \E k \in Sample("v", UnitVals) :
         /\ fl' = [fl EXCEPT !.v_t0 = SliceC(fl.flow_interp_out, 4, 5),
                             !.val.v_t0 = Num(k, Scale), !.pc = 180]
         /\ drv' = Sampled("v", k)
    /\ UNCHANGED <<objs, nserial, u, s, log, err, ou, bw>>

\* line 180: v_t1 = 1 - v_t0
VisibilityT1(v_t0) == NumSub(One, v_t0)
F180 ==
    /\ fl.pc = 180
    /\ fl' = [fl EXCEPT !.v_t1 = fl.v_t0,
                        !.val.v_t1 = VisibilityT1(fl.val.v_t0), !.pc = 182]
    /\ UNCHANGED <<objs, nserial, u, s, log, drv, err, ou, bw>>

\* line 182: f_t0 = f_t0_t + delta_f_t0
F182 == FlowElem(182, 183, "f_t0", <<"f_t0_t", "delta_f_t0">>)
\* line 183: f_t1 = f_t1_t + delta_f_t1
F183 == FlowElem(183, 185, "f_t1", <<"f_t1_t", "delta_f_t1">>)

\* line 185: return f_t0, v_t0, f_t1, v_t1, g_i0_ft0, g_i1_ft1
F185 ==
    /\ fl.pc = 185
    /\ drv' = [drv EXCEPT
                 !.stage = "flow_done",
                 !.flow_out =
                     [kind |-> "flow", f_t0 |-> fl.f_t0, v_t0 |-> fl.v_t0,
                      f_t1 |-> fl.f_t1, v_t1 |-> fl.v_t1,
                      g_i0_ft0 |-> fl.g_i0_ft0, g_i1_ft1 |-> fl.g_i1_ft1,
                      val |-> fl.val]]
    /\ fl' = IdleF
    /\ UNCHANGED <<objs, nserial, u, s, log, err, ou, bw>>

----------------------------------------------------------------------------
(* Output                                                                    *)

\* Output.build, lines 192-194
OutputBuild ==
    /\ ou.pc = 192
    /\ objs' =
          (Child(ou.self, "backwarp_layer_t0") :>
               NewLayer(nserial + 1, "BackWarp", NoFn)) @@
          (Child(ou.self, "backwarp_layer_t1") :>
               NewLayer(nserial + 2, "BackWarp", NoFn)) @@
          [objs EXCEPT
             ![ou.self].built = TRUE,
             ![ou.self].refs =
                 [backwarp_layer_t0 |-> nserial + 1,
                  backwarp_layer_t1 |-> nserial + 2]]
    /\ nserial' = nserial + 2
    /\ ou' = [ou EXCEPT !.pc = 197]
    /\ UNCHANGED <<u, s, log, drv, err, fl, bw>>

\* line 197: frames_0, f_t0, v_t0, frames_1, f_t1, v_t1, t_indeces = inputs
O197 ==
    /\ ou.pc = 197
    /\ ou' = [ou EXCEPT !.frames_0 = drv.input.frames_0,
                        !.f_t0 = drv.flow_out.f_t0,
                        !.v_t0 = drv.flow_out.v_t0,
                        !.frames_1 = drv.input.frames_1,
                        !.f_t1 = drv.flow_out.f_t1,
                        !.v_t1 = drv.flow_out.v_t1,
                        !.t_indeces = drv.input.t_indeces,
                        !.val.v_t0 = drv.flow_out.val.v_t0,
                        !.val.v_t1 = drv.flow_out.val.v_t1,
                        !.val.t_indeces = drv.input.t,
                        !.pc = 200]
    /\ UNCHANGED <<objs, nserial, u, s, log, drv, err, fl, bw>>

\* line 200: g_i0_ft0 = self.backwarp_layer_t0([frames_0, f_t0])
O200 ==
    /\ ou.pc = 200
    /\ bw.pc = 0
    /\ EnterBackWarp("Output", ou.self, "backwarp_layer_t0",
                     <<ou.frames_0, ou.f_t0>>, "g_i0_ft0")
    /\ UNCHANGED <<objs, nserial, u, s, log, drv, err, fl, ou>>

\* line 201: g_i1_ft1 = self.backwarp_layer_t1([frames_1, f_t1])
O201 ==
    /\ ou.pc = 201
    /\ bw.pc = 0
    /\ EnterBackWarp("Output", ou.self, "backwarp_layer_t1",
                     <<ou.frames_1, ou.f_t1>>, "g_i1_ft1")
    /\ UNCHANGED <<objs, nserial, u, s, log, drv, err, fl, ou>>

\* line 203: the normaliser
\*   ((1 - t_indeces) * v_t0) + (t_indeces * v_t1) + 1e-12
Normaliser(t, v_t0, v_t1) ==
    NumAdd(NumAdd(NumMul(NumSub(One, t), v_t0), NumMul(t, v_t1)), Eps)

\* Variant: the time weights of the two frames exchanged.
Blend_Swapped(t, v_t0, v_t1, g_i0_ft0, g_i1_ft1) ==
    NumAdd(NumMul(NumMul(t, v_t0), g_i0_ft0),
           NumMul(NumMul(NumSub(One, t), v_t1), g_i1_ft1))

\* line 204: the unnormalised blend
\*   ((1 - t_indeces) * v_t0 * g_i0_ft0) + (t_indeces * v_t1 * g_i1_ft1)
Blend(t, v_t0, v_t1, g_i0_ft0, g_i1_ft1) ==
    NumAdd(NumMul(NumMul(NumSub(One, t), v_t0), g_i0_ft0),
           NumMul(NumMul(t, v_t1), g_i1_ft1))

\* line 203: z = ((1 - t_indeces) * v_t0) + (t_indeces * v_t1) + 1e-12
O203 ==
    /\ ou.pc = 203
    /\ LET ts == <<ou.t_indeces, ou.v_t0, ou.t_indeces, ou.v_t1>>
       IN  IF ElemOk(ts)
           THEN /\ ou' = [ou EXCEPT
                            !.z = Elem(ts),
                            !.val.z = Normaliser(ou.val.t_indeces, ou.val.v_t0,
                                                 ou.val.v_t1),
                            !.pc = 204]
                /\ UNCHANGED <<objs, nserial, u, s, log, drv, err, fl, bw>>
           ELSE Raise("broadcast")

\* line 204: frame_pred = ((1 - t) * v_t0 * g_i0_ft0) + (t * v_t1 * g_i1_ft1)
O204 ==
    /\ ou.pc = 204
    /\ LET ts == <<ou.t_indeces, ou.v_t0, ou.g_i0_ft0,
                   ou.t_indeces, ou.v_t1, ou.g_i1_ft1>>
       IN  IF ElemOk(ts)
           THEN /\ ou' = [ou EXCEPT
                            !.frame_pred = Elem(ts),
                            !.val.frame_pred =
                                Blend(ou.val.t_indeces, ou.val.v_t0, ou.val.v_t1,
                                      ou.val.g_i0_ft0, ou.val.g_i1_ft1),
                            !.pc = 205]
                /\ UNCHANGED <<objs, nserial, u, s, log, drv, err, fl, bw>>
           ELSE Raise("broadcast")

\* line 205: frame_pred = tf.divide(frame_pred, z)
O205 ==
    /\ ou.pc = 205
    /\ LET ts == <<ou.frame_pred, ou.z>>
       IN  IF ElemOk(ts)
           THEN /\ ou' = [ou EXCEPT
                            !.frame_pred = Elem(ts),
                            !.val.frame_pred = Divide(ou.val.frame_pred, ou.val.z),
                            !.pc = 206]
                /\ UNCHANGED <<objs, nserial, u, s, log, drv, err, fl, bw>>
           ELSE Raise("broadcast")

\* line 206: return frame_pred
O206 ==
    /\ ou.pc = 206
    /\ drv' = [drv EXCEPT
                 !.stage = "done",
                 !.result = [kind |-> "output", frame_pred |-> ou.frame_pred,
                             val |-> ou.val.frame_pred]]
    /\ ou' = IdleO
    /\ UNCHANGED <<objs, nserial, u, s, log, err, fl, bw>>

----------------------------------------------------------------------------
(* The caller of the top-level layer                                         *)

TopUNet == <<"", "UNet">>

Idle == u.pc = 0 /\ s.pc = 0 /\ fl.pc = 0 /\ ou.pc = 0 /\ bw.pc = 0

\* UNet(out_filters)(inputs) for a fresh input tensor
DriverCallUNet ==
    /\ Idle
    /\ err = "none"
    /\ drv.stage = "idle"
    /\ TopUNet \in DOMAIN objs
    /\ \E b \in Batches, h \in Dims, w \in Dims :
         LET x == T(b, h, w, InChannels)
         IN  /\ u' = [IdleU EXCEPT !.self = TopUNet, !.pc = EntryLine(TopUNet),
                                   !.caller = "driver", !.inputs = x]
             /\ drv' = [IdleDrv EXCEPT !.stage = "unet",
                                       !.input = [kind |-> "unet", inputs |-> x]]
    /\ log' = <<>>
    /\ UNCHANGED <<objs, nserial, s, err, fl, ou, bw>>

TopFlow == <<"", "optical_flow">>
TopOutput == <<"", "output">>

FlowInput(b, h, w, k) ==
    [kind |-> "flow",
     frames_0 |-> T(b, h, w, 3), frames_1 |-> T(b, h, w, 3),
     f_01 |-> T(b, h, w, 2), f_10 |-> T(b, h, w, 2),
     t_indeces |-> T(b, 1, 1, 1), t |-> Num(k, Scale),
     sample |-> NoSample]

\* OpticalFlow()([frames_0, frames_1, f_01, f_10, t_indeces]) for fresh inputs
DriverCallFlow ==
    /\ Idle
    /\ err = "none"
    /\ drv.stage = "idle"
    /\ TopFlow \in DOMAIN objs
    /\ \E b \in Batches, h \in FlowDims, w \in FlowDims, k \in UnitVals :
         drv' = [IdleDrv EXCEPT !.stage = "flow", !.input = FlowInput(b, h, w, k)]
    /\ fl' = [IdleF EXCEPT !.self = TopFlow, !.pc = EntryLine(TopFlow)]
    /\ UNCHANGED <<objs, nserial, u, s, log, err, ou, bw>>

\* Output()([frames_0, f_t0, v_t0, frames_1, f_t1, v_t1, t_indeces]) on what
\* OpticalFlow returned
DriverCallOutput ==
    /\ Idle
    /\ err = "none"
    /\ drv.stage = "flow_done"
    /\ drv' = [drv EXCEPT !.stage = "output"]
    /\ ou' = [IdleO EXCEPT !.self = TopOutput, !.pc = EntryLine(TopOutput)]
    /\ UNCHANGED <<objs, nserial, u, s, log, err, fl, bw>>

\* Both layers called once more with the inputs of the calls that returned
DriverRepeatFlow ==
    /\ Idle
    /\ err = "none"
    /\ drv.stage = "done"
    /\ drv.input.kind = "flow"
    /\ ~drv.repeat
    /\ drv' = [drv EXCEPT !.stage = "flow", !.repeat = TRUE,
                          !.prev = [kind |-> "flow", flow_out |-> drv.flow_out,
                                    result |-> drv.result],
                          !.flow_out = NoInput, !.result = NoInput]
    /\ fl' = [IdleF EXCEPT !.self = TopFlow, !.pc = EntryLine(TopFlow)]
    /\ UNCHANGED <<objs, nserial, u, s, log, err, ou, bw>>

\* The caller lets go of the tensors of the last call
DriverDrop ==
    /\ Idle
    /\ drv.stage = "done"
    /\ drv' = IdleDrv
    /\ UNCHANGED <<objs, nserial, u, s, log, err, fl, ou, bw>>

\* line 49: return x_dec
U49 ==
    /\ u.pc = 49
    /\ u' = IdleU
    /\ IF u.caller = "driver"
       THEN /\ drv' = [drv EXCEPT !.stage = "done",
                                  !.result = [kind |-> "unet", out |-> u.x_dec]]
            /\ UNCHANGED fl
       ELSE /\ fl' = [fl EXCEPT !.flow_interp_out = u.x_dec, !.pc = 175]
            /\ UNCHANGED drv
    /\ UNCHANGED <<objs, nserial, s, log, err, ou, bw>>

----------------------------------------------------------------------------
(* Specification                                                             *)

Init ==
    /\ \E n \in OutFilters :
         objs = (TopUNet :> NewLayer(1, "UNet", [out_filters |-> n]))
    /\ nserial = 1
    /\ u = IdleU
    /\ s = IdleS
    /\ fl = IdleF
    /\ ou = IdleO
    /\ bw = IdleBW
    /\ log = <<>>
    /\ drv = IdleDrv
    /\ err = "none"

UNetNext ==
    \/ UNetBuild
    \/ U33 \/ U34 \/ U35 \/ U36 \/ U37 \/ U38 \/ U39 \/ U40 \/ U41
    \/ U42 \/ U43 \/ U44 \/ U45 \/ U46 \/ U47 \/ U48 \/ U49

EncoderNext ==
    \/ EncoderBuild
    \/ E80 \/ E81 \/ E82 \/ E83 \/ E84 \/ E85

DecoderNext ==
    \/ DecoderBuild
    \/ D109 \/ D110 \/ D111 \/ D112 \/ D115 \/ D116 \/ D117 \/ D121
    \/ D122 \/ D123 \/ D124

Next ==
    \/ DriverCallUNet
    \/ DriverDrop
    \/ UNetNext
    \/ EncoderNext
    \/ DecoderNext

Spec == Init /\ [][Next]_vars

\* The interpolation pipeline: OpticalFlow (with its UNet and BackWarp
\* sublayers) and Output
InitFlow ==
    /\ objs = (TopFlow :> NewLayer(1, "OpticalFlow", NoFn)) @@
              (TopOutput :> NewLayer(2, "Output", NoFn))
    /\ nserial = 2
    /\ u = IdleU
    /\ s = IdleS
    /\ fl = IdleF
    /\ ou = IdleO
    /\ bw = IdleBW
    /\ log = <<>>
    /\ drv = IdleDrv
    /\ err = "none"

BackWarpNext ==
    \/ BackWarpBuild
    \/ B141 \/ B142 \/ B143

OpticalFlowNext ==
    \/ OpticalFlowBuild
    \/ F156 \/ F158 \/ F159 \/ F160 \/ F162 \/ F163 \/ F166 \/ F167
    \/ F169 \/ F172 \/ F175 \/ F176 \/ F179 \/ F180 \/ F182 \/ F183
    \/ F185

OutputNext ==
    \/ OutputBuild
    \/ O197 \/ O200 \/ O201 \/ O203 \/ O204 \/ O205 \/ O206

NextFlow ==
    \/ DriverCallFlow
    \/ DriverCallOutput
    \/ DriverRepeatFlow
    \/ DriverDrop
    \/ OpticalFlowNext
    \/ BackWarpNext
    \/ OutputNext
    \/ UNetNext
    \/ EncoderNext
    \/ DecoderNext

SpecFlow == InitFlow /\ [][NextFlow]_vars

----------------------------------------------------------------------------
(* Properties                                                                *)

InEncoder == s.pc \in 80..85
InDecoder == s.pc \in 109..124
SkipName(i) == <<"skip1", "skip2", "skip3", "skip4", "skip5">>[i]
LayerSeq ==
    <<"encoder1", "encoder2", "encoder3", "encoder4", "encoder5",
      "decoder1", "decoder2", "decoder3", "decoder4", "decoder5">>
Halved(n, k) == n \div (2 ^ k)

\* C1: every UNet(out_filters) call on an input (B, H, W, C) with H, W >= 32,
\* odd or even, raises nothing and returns a tensor of shape
\* (B, H, W, out_filters).
C1_UNetRestoresShape ==
    /\ err = "none"
    /\ drv.stage = "done" =>
         /\ drv.input.inputs.h >= MinDim /\ drv.input.inputs.w >= MinDim
         /\ drv.result.out =
               T(drv.input.inputs.b, drv.input.inputs.h, drv.input.inputs.w,
                 objs[TopUNet].cfg.out_filters)

\* A call on an input of odd height and even width, neither a multiple of
\* 32, has returned.
C1_Witness ==
    /\ drv.stage = "done"
    /\ drv.input.inputs.h = 45
    /\ drv.input.inputs.w = 54
    /\ drv.result.out.h = 45

\* C2: in one UNet.call the sublayers run in the order encoder1..encoder5,
\* decoder1..decoder5, each exactly once; every tensor a sublayer receives
\* has been produced before; each of skip1..skip5 goes to exactly one
\* decoder, and decoder k receives skip(6-k), the input of encoder(6-k).
C2_FixedPipeline ==
    /\ Len(log) <= 10
    /\ \A i \in 1..Len(log) : log[i].layer = LayerSeq[i]
    /\ (u.pc \in 37..46 /\ s.pc = 0) => Len(log) = u.pc - 37
    /\ (u.pc \in 37..46 /\ s.pc # 0) => Len(log) = u.pc - 36
    /\ u.pc \in 47..49 => Len(log) = 10
    /\ s.pc # 0 =>
         /\ s.self = Child(u.self, log[Len(log)].layer)
         /\ \A i \in DOMAIN s.inputs :
              /\ s.inputs[i] # NoT
              /\ s.inputs[i] = u[log[Len(log)].args[i]]
    /\ \A k \in 1..5 :
         Len(log) >= 5 + k =>
           /\ log[5 + k].args[2] = SkipName(6 - k)
           /\ log[6 - k].args[1] = SkipName(6 - k)
           /\ u.pc # 0 => u[SkipName(6 - k)] # NoT
    /\ \A i \in 1..5 :
         LET users == {j \in 6..Len(log) :
                         \E a \in DOMAIN log[j].args : log[j].args[a] = SkipName(i)}
         IN  /\ Cardinality(users) <= 1
             /\ Len(log) = 10 => Cardinality(users) = 1

\* A UNet.call is about to return after all ten sublayers ran.
C2_Witness ==
    /\ u.pc = 49
    /\ s.pc = 0
    /\ Len(log) = 10
    /\ log[10].layer = "decoder5"
    /\ log[10].args = <<"x_dec", "skip1">>

\* C3: once a layer is built, no step of any call changes its configuration
\* or the identity of the sublayers its attributes refer to, and a call
\* repeated with the same inputs and weights returns the same outputs.
C3_FrameStep ==
    /\ \A id \in DOMAIN objs :
         objs[id].built =>
           /\ id \in DOMAIN objs'
           /\ objs'[id].built
           /\ objs'[id].serial = objs[id].serial
           /\ objs'[id].cls = objs[id].cls
           /\ objs'[id].cfg = objs[id].cfg
           /\ objs'[id].refs = objs[id].refs
           /\ DOMAIN objs'[id].conv = DOMAIN objs[id].conv
           /\ \A a \in DOMAIN objs[id].conv :
                /\ objs'[id].conv[a].filters = objs[id].conv[a].filters
                /\ objs'[id].conv[a].kernel_size = objs[id].conv[a].kernel_size
    /\ (drv'.stage = "flow_done" /\ drv'.repeat) =>
         drv'.flow_out = drv'.prev.flow_out
    /\ (drv'.stage = "done" /\ drv'.repeat) =>
         /\ drv'.flow_out = drv'.prev.flow_out
         /\ drv'.result = drv'.prev.result

C3_CallsKeepNoState == [][C3_FrameStep]_vars

\* OpticalFlow and Output have both returned a second time on the same
\* inputs, every layer being built.
C3_Witness ==
    /\ drv.stage = "done"
    /\ drv.repeat
    /\ drv.prev.result.kind = "output"
    /\ \A id \in DOMAIN objs : objs[id].built
    /\ Cardinality(DOMAIN objs) = 17

\* C4: Encoder.call pools first and then convolves twice; for an input
\* (B, H, W, C) with H, W >= 2 it returns (B, floor(H/2), floor(W/2),
\* filters), and the k-th encoder of a chain returns
\* floor(H/2^k) by floor(W/2^k).
C4_EncoderHalves ==
    /\ (InEncoder /\ s.pc >= 81) =>
         LET in == s.inputs[1]
             me == objs[s.self]
         IN  /\ PoolFits(in)
             /\ s.x.b = in.b
             /\ s.x.h = in.h \div 2
             /\ s.x.w = in.w \div 2
             /\ s.pc = 81 => s.x.c = in.c /\ me.conv.conv1.in_c \in {0, in.c}
             /\ s.pc >= 82 => s.x.c = me.cfg.filters /\ me.conv.conv1.in_c = in.c
             /\ s.pc \in 82..83 => me.conv.conv2.in_c \in {0, me.cfg.filters}
             /\ s.pc >= 84 => me.conv.conv2.in_c = me.cfg.filters
    /\ \A k \in 1..4 :
         u.pc > 36 + k =>
           /\ u[SkipName(k + 1)].h = Halved(u.skip1.h, k)
           /\ u[SkipName(k + 1)].w = Halved(u.skip1.w, k)
    /\ u.pc \in 42..46 =>
         /\ u.x_enc.h = Halved(u.skip1.h, 5)
         /\ u.x_enc.w = Halved(u.skip1.w, 5)

\* The fifth encoder of a chain is about to return a 1 x 1 map for a
\* 3 x 2 input.
C4_Witness ==
    /\ s.pc = 85
    /\ s.self[2] = "encoder5"
    /\ s.inputs[1].h = 3
    /\ s.inputs[1].w = 2
    /\ s.x.h = 1
    /\ s.x.w = 1
    /\ s.x.c = 512

\* C5: Decoder.call upsamples by two, convolves to `filters` channels,
\* joins the skip tensor on the channel axis, and convolves again: the
\* second convolution reads filters + skip-channels channels and the output
\* has exactly `filters` channels.
C5_DecoderOrder ==
    (InDecoder /\ s.pc >= 111) =>
       LET in == s.inputs[1]
           sk == s.inputs[2]
           me == objs[s.self]
       IN  /\ s.pc = 111 =>
                s.x = T(in.b, 2 * in.h, 2 * in.w, in.c)
           /\ s.pc \in 112..117 =>
                /\ s.x = T(in.b, 2 * in.h, 2 * in.w, me.cfg.filters)
                /\ me.conv.conv1.in_c = in.c
                /\ me.conv.conv2.in_c \in {0, me.cfg.filters + sk.c}
           /\ s.pc = 121 => s.x = T(sk.b, sk.h, sk.w, me.cfg.filters)
           /\ s.pc = 122 => s.x = T(sk.b, sk.h, sk.w, me.cfg.filters + sk.c)
           /\ s.pc \in 123..124 =>
                /\ s.x = T(sk.b, sk.h, sk.w, me.cfg.filters)
                /\ me.conv.conv2.in_c = me.cfg.filters + sk.c

\* decoder1 is about to return: its second convolution read 512 + 512
\* channels.
C5_Witness ==
    /\ s.pc = 124
    /\ s.self[2] = "decoder1"
    /\ objs[s.self].conv.conv2.in_c = 1024
    /\ s.x.c = 512
    /\ s.inputs[2].c = 512

\* C6: with t in [0, 1], v_t0 in [0, 1] and v_t1 = 1 - v_t0, the frame
\* Output.call predicts is the blend of the two warped frames with the
\* weights (1-t)*v_t0/z and t*v_t1/z: each weight is in [0, 1], they sum to
\* at most 1, the weight of warped frame 1 is zero at t = 0 and that of
\* warped frame 0 is zero at t = 1.  The weight of a frame is the predicted
\* value where that frame is 1 and the other is 0.
C6_BlendWeights ==
    ou.pc = 206 =>
       LET q == ou.val.frame_pred
           t == ou.val.t_indeces
           g0 == ou.val.g_i0_ft0
           g1 == ou.val.g_i1_ft1
           Zero == Num(0, 1)
       IN  /\ NumLeq(Zero, t) /\ NumLeq(t, One)
           /\ NumLeq(Zero, ou.val.v_t0) /\ NumLeq(ou.val.v_t0, One)
           /\ NumEq(ou.val.v_t1, NumSub(One, ou.val.v_t0))
           /\ IsFinite(q)
           /\ NumLess(Zero, q.den)
           /\ NumLeq(Zero, q.num)
           /\ (NumLeq(g0, One) /\ NumLeq(g1, One)) => NumLeq(q.num, q.den)
           /\ (NumEq(g0, Zero) /\ NumEq(t, Zero)) => NumIsZero(q.num)
           /\ (NumEq(g1, Zero) /\ NumEq(t, One)) => NumIsZero(q.num)

\* At t = 0 with v_t0 = 0 the normaliser is 1e-12 alone, and the predicted
\* value is 0 although warped frame 1 is 1.
C6_Witness ==
    /\ ou.pc = 206
    /\ NumEq(ou.val.t_indeces, Num(0, 1))
    /\ NumEq(ou.val.v_t0, Num(0, 1))
    /\ NumEq(ou.val.g_i0_ft0, Num(0, 1))
    /\ NumEq(ou.val.g_i1_ft1, One)
    /\ NumEq(ou.val.z, Eps)
    /\ NumIsZero(ou.val.frame_pred.num)

\* C7: in every Decoder call of UNet.call, x_delta and y_delta are 0 or 1,
\* tf.pad adds rows and columns only after the last row and the last
\* column, and the padded tensor has the skip tensor's height and width
\* when it is concatenated.
C7_PadToSkip ==
    /\ err = "none"
    /\ s.pc \in 116..117 => s.x_delta \in {0, 1}
    /\ s.pc = 117 =>
         /\ s.y_delta \in {0, 1}
         /\ Paddings(s.x_delta, s.y_delta)[1] = <<0, 0>>
         /\ Paddings(s.x_delta, s.y_delta)[4] = <<0, 0>>
         /\ Paddings(s.x_delta, s.y_delta)[2][1] = 0
         /\ Paddings(s.x_delta, s.y_delta)[3][1] = 0
         /\ s.x.h + s.x_delta = s.skip.h
         /\ s.x.w + s.y_delta = s.skip.w
    /\ s.pc = 121 =>
         /\ s.x.h = s.skip.h
         /\ s.x.w = s.skip.w
         /\ s.x.b = s.skip.b
         /\ s.x.c = objs[s.self].cfg.filters

\* decoder1 padded one row and no column.
C7_Witness ==
    /\ s.pc = 121
    /\ s.self[2] = "decoder1"
    /\ s.x_delta = 1
    /\ s.y_delta = 0
    /\ s.x.h = 3
    /\ s.x.w = 2

====
